---- MODULE Spec2Model ----
(***************************************************************************)
(* vfsgen: generation of a static, embeddable filesystem (Generate,        *)
(* findAndWriteFiles, writeCompressedFileInfo, writeFileInfo,              *)
(* readDirPaths) and the runtime filesystem the generated code implements  *)
(* (FS.Open, CompressedFile, File, Dir), together with the directory       *)
(* listing loop of the gzip file server that consumes it.                  *)
(*                                                                         *)
(* Strings (paths, names, file contents) are sequences of byte values.     *)
(***************************************************************************)
EXTENDS Integers, Sequences, FiniteSets, TLC

VARIABLES
    input,              \* the input http.FileSystem: path -> [isDir, content, names]
    genpc,              \* position inside Generate
    todo,               \* vfsutil.WalkFiles: paths still to be visited, depth first
    buf,                \* Generate's in-memory output buffer: the emitted table entries
    tocDirs,            \* toc.dirs
    hasCompressedFile,  \* toc.HasCompressedFile
    hasFile,            \* toc.HasFile
    outFile,            \* the file opt.Filename on disk
    genErr,             \* the error Generate returned, "nil" when none
    booted,             \* the generated package has been initialised
    fs,                 \* the runtime table vfsgen۰FS: path -> node
    fs0,                \* the table as it was when constructed (history variable)
    hasC, hasF,         \* which cases the generated Open switch contains
    fault,              \* a panic raised by the generated code
    clients,            \* the callers that are active
    ref,                \* client -> the handle (cell) it holds, 0 when none
    cell,               \* the heap of open handles
    res,                \* client -> result of its last call
    log,                \* client -> what its handle returned since Open (history variable)
    solo,               \* client -> its handle replayed in isolation (history variable)
    lst,                \* client -> progress of dirList on its handle
    srv                 \* client -> the request ServeHTTP is serving and its response

genVars == <<input, genpc, todo, buf, tocDirs, hasCompressedFile, hasFile, outFile, genErr>>
rtVars  == <<booted, fs, fs0, hasC, hasF, fault, ref, cell, res, log, solo, lst, srv>>
vars    == <<genVars, rtVars, clients>>

----------------------------------------------------------------------------
(* Bounds *)

MaxLen   == 7       \* longest file content
MaxOver  == 1       \* how far outside 0..size a seek position may go
MaxBuf   == 2       \* largest Read buffer
MaxChunks == 2      \* the largest directory fills this many Readdir(100) slices

Alphabet == {65, 66}      \* the bytes file contents are made of: "A", "B"

Slash == 47               \* '/'
DotName    == <<46>>      \* "."
DotDotName == <<46, 46>>  \* ".."

Min(a, b) == IF a < b THEN a ELSE b

SeqsUpTo(S, n) == UNION {[1..k -> S] : k \in 0..n}

----------------------------------------------------------------------------
(* Strings *)

\* Go's < on strings: bytewise lexicographic
RECURSIVE StrLess(_, _)
StrLess(a, b) ==
    IF b = <<>> THEN FALSE
    ELSE IF a = <<>> THEN TRUE
    ELSE IF Head(a) # Head(b) THEN Head(a) < Head(b)
    ELSE StrLess(Tail(a), Tail(b))

\* index of the last Slash in s, 0 when none
RECURSIVE LastSlash(_)
LastSlash(s) ==
    IF s = <<>> THEN 0
    ELSE IF s[Len(s)] = Slash THEN Len(s)
    ELSE LastSlash(SubSeq(s, 1, Len(s) - 1))

\* path.Base for cleaned, rooted paths
Base(p) ==
    IF p = <<Slash>> THEN p
    ELSE SubSeq(p, LastSlash(p) + 1, Len(p))

\* path.Join(dirname, name) for a cleaned dirname and a plain name
Join(dirname, name) ==
    IF dirname = <<Slash>> THEN <<Slash>> \o name
    ELSE dirname \o <<Slash>> \o name

\* the elements of s between slashes
RECURSIVE SplitPath(_, _)
SplitPath(s, cur) ==
    IF s = <<>> THEN <<cur>>
    ELSE IF Head(s) = Slash THEN <<cur>> \o SplitPath(Tail(s), <<>>)
    ELSE SplitPath(Tail(s), Append(cur, Head(s)))

RECURSIVE CleanElems(_, _)
CleanElems(elems, acc) ==
    IF elems = <<>> THEN acc
    ELSE LET e == Head(elems) IN
         IF e = <<>> \/ e = DotName THEN CleanElems(Tail(elems), acc)
         ELSE IF e = DotDotName
              THEN CleanElems(Tail(elems),
                              IF acc = <<>> THEN acc ELSE SubSeq(acc, 1, Len(acc) - 1))
         ELSE CleanElems(Tail(elems), Append(acc, e))

RECURSIVE JoinElems(_)
JoinElems(elems) ==
    IF elems = <<>> THEN <<>>
    ELSE <<Slash>> \o Head(elems) \o JoinElems(Tail(elems))

\* path.Clean of a rooted path
Clean(p) ==
    LET e == CleanElems(SplitPath(p, <<>>), <<>>) IN
    IF e = <<>> THEN <<Slash>> ELSE JoinElems(e)

\* sort.Strings: every element goes to the place given by the number of
\* elements that come before it (<<>> \o f is f, as a sequence)
SortStrings(s) ==
    LET n    == Len(s)
        t    == <<>> \o s
        rank == <<>> \o [i \in 1..n |->
                    Cardinality({j \in 1..n : StrLess(t[j], t[i]) \/ (t[j] = t[i] /\ j <= i)})]
    IN  <<>> \o [k \in 1..n |-> t[CHOOSE i \in 1..n : rank[i] = k]]

----------------------------------------------------------------------------
(* compress/gzip, modelled as a two byte magic header followed by the      *)
(* run-length encoding of the content: <<count, byte>> pairs.              *)

GzipMagic == <<31, 139>>

RECURSIVE RunLen(_, _)
RunLen(s, b) ==
    IF s = <<>> \/ Head(s) # b THEN 0 ELSE 1 + RunLen(Tail(s), b)

RECURSIVE Deflate(_)
Deflate(s) ==
    IF s = <<>> THEN <<>>
    ELSE LET n == RunLen(s, Head(s)) IN
         <<n, Head(s)>> \o Deflate(SubSeq(s, n + 1, Len(s)))

\* the bytes a gzip.Writer emits for content s, up to and including Close
GzipWrite(s) == GzipMagic \o Deflate(s)

RECURSIVE Inflate(_)
Inflate(z) ==
    IF Len(z) < 2 THEN <<>>
    ELSE [i \in 1..z[1] |-> z[2]] \o Inflate(SubSeq(z, 3, Len(z)))

\* gzip.NewReader / Reset accept the payload
GzipHeaderOK(z) == Len(z) >= Len(GzipMagic) /\ SubSeq(z, 1, Len(GzipMagic)) = GzipMagic

\* everything a gzip.Reader over payload z produces
Gunzip(z) == Inflate(SubSeq(z, Len(GzipMagic) + 1, Len(z)))

----------------------------------------------------------------------------
(* The input filesystems *)

InFile(c)  == [isDir |-> FALSE, content |-> c, names |-> <<>>]
InDir(ns)  == [isDir |-> TRUE, content |-> <<>>, names |-> ns]

Root == <<Slash>>
NameA == <<97>>
NameB == <<98>>
NameC == <<99>>
NameD == <<100>>
NameE == <<101>>
NameF == <<102>>

Compressible == <<65, 65, 65, 65, 65, 66, 66>>     \* gzip form is shorter
Repetitive == <<66, 66, 66, 66, 66>>               \* gzip form is shorter
Incompressible == <<65, 66>>                       \* gzip form is longer

\* a directory with a compressible file, an incompressible file and a
\* subdirectory; directories list their children in no particular order
TreeMixed ==
    (Root :> InDir(<<NameD, NameB, NameA>>))
    @@ (Join(Root, NameA) :> InFile(Compressible))
    @@ (Join(Root, NameB) :> InFile(Incompressible))
    @@ (Join(Root, NameD) :> InDir(<<NameC>>))
    @@ (Join(Join(Root, NameD), NameC) :> InFile(<<66>>))

\* directories only, one of them empty
TreeDirs ==
    (Root :> InDir(<<NameE>>))
    @@ (Join(Root, NameE) :> InDir(<<>>))

\* only a compressed file
TreeCompressed ==
    (Root :> InDir(<<NameA>>))
    @@ (Join(Root, NameA) :> InFile(Compressible))

\* only a stored file
TreeStored ==
    (Root :> InDir(<<NameB>>))
    @@ (Join(Root, NameB) :> InFile(Incompressible))

InputTrees == {TreeMixed, TreeDirs, TreeCompressed, TreeStored}

\* the smallest tree with a file of either kind
TreePair ==
    (Root :> InDir(<<NameB, NameA>>))
    @@ (Join(Root, NameA) :> InFile(Repetitive))
    @@ (Join(Root, NameB) :> InFile(Incompressible))

\* one file of arbitrary content
TreeOneFile(c) ==
    (Root :> InDir(<<NameF>>))
    @@ (Join(Root, NameF) :> InFile(c))

FileTrees == {TreeOneFile(c) : c \in SeqsUpTo(Alphabet, MaxLen)}

\* the name of the i-th child of a large directory: "aa", "ab", ...
ListName(i) == <<97 + (i \div 26), 97 + (i % 26)>>

\* a root directory with n children, read in descending order: the first
\* (by name) is an empty directory, the others are one byte files
TreeList(n) ==
    (Root :> InDir([i \in 1..n |-> ListName(n - i)]))
    @@ [p \in {Join(Root, ListName(i)) : i \in 0..(n - 1)} |->
          IF p = Join(Root, ListName(0)) THEN InDir(<<>>) ELSE InFile(<<65>>)]

\* one file of any content whose gzip form is shorter than the content;
\* exchanging the two bytes of the alphabet changes no length, so the
\* contents that begin with "A" stand for all of them
PackedTrees ==
    {TreeOneFile(c) : c \in {x \in SeqsUpTo(Alphabet, MaxLen) :
                                /\ x # <<>>
                                /\ x[1] = 65
                                /\ Len(GzipWrite(x)) < Len(x)}}

----------------------------------------------------------------------------
(* Generation *)

\* stringWriter.N: total bytes written through the stringWriter
stringWriter_N(written) == Len(written)

Entry(kind, file, content, complete) ==
    [path |-> file.Path, kind |-> kind, name |-> file.Name, content |-> content,
     usize |-> file.UncompressedSize, complete |-> complete]

\* io.Copy from an io.ReadSeeker over content c positioned at rpos
ReadRest(c, rpos) == SubSeq(c, rpos + 1, Len(c))

\* a packer that keeps the gzip bytes also when they are as many as the file's
writeCompressedFileInfo_NotLarger(w, file, c, rpos) ==
    LET gz == GzipWrite(ReadRest(c, rpos)) IN
    IF stringWriter_N(gz) > file.UncompressedSize
    THEN [w |-> Append(w, Entry("CompressedFileInfo", file, gz, FALSE)),
          err |-> "errCompressedNotSmaller", rpos |-> Len(c)]
    ELSE [w |-> Append(w, Entry("CompressedFileInfo", file, gz, TRUE)),
          err |-> "nil", rpos |-> Len(c)]

\* writeCompressedFileInfo: writes the entry's head and the gzip bytes, and
\* the entry's tail only when the gzip bytes are fewer than the file's size
writeCompressedFileInfo(w, file, c, rpos) ==
    LET gz == GzipWrite(ReadRest(c, rpos)) IN
    IF stringWriter_N(gz) >= file.UncompressedSize
    THEN [w |-> Append(w, Entry("CompressedFileInfo", file, gz, FALSE)),
          err |-> "errCompressedNotSmaller", rpos |-> Len(c)]
    ELSE [w |-> Append(w, Entry("CompressedFileInfo", file, gz, TRUE)),
          err |-> "nil", rpos |-> Len(c)]

\* writeFileInfo: the entry with the bytes read from r
writeFileInfo(w, file, c, rpos) ==
    Append(w, Entry("FileInfo", file, ReadRest(c, rpos), TRUE))

\* readDirPaths without the path.Join: the sorted names
readDirPaths_Names(in, dirname) ==
    SortStrings(in[dirname].names)

\* readDirPaths without the sort
readDirPaths_Unsorted(in, dirname) ==
    [i \in 1..Len(in[dirname].names) |-> Join(dirname, in[dirname].names[i])]

\* readDirPaths: the full paths of the children, sorted
readDirPaths(in, dirname) ==
    SortStrings([i \in 1..Len(in[dirname].names) |-> Join(dirname, in[dirname].names[i])])

\* vfsutil.WalkFiles descends into the children in the order of their names
readDirNames(in, dirname) == SortStrings(in[dirname].names)

\* the file branch of walkFn
walkFn_file(path) ==
    LET c      == input[path].content
        file   == [Path |-> path, Name |-> Base(path), UncompressedSize |-> Len(c)]
        marker == Len(buf)
        r      == writeCompressedFileInfo(buf, file, c, 0)
    IN  IF r.err = "nil"
        THEN /\ buf' = r.w
             /\ hasCompressedFile' = TRUE
             /\ UNCHANGED hasFile
        ELSE \* r.Seek(0, io.SeekStart); buf.Truncate(marker); writeFileInfo
             /\ buf' = writeFileInfo(SubSeq(r.w, 1, marker), file, c, 0)
             /\ hasFile' = TRUE
             /\ UNCHANGED hasCompressedFile

\* the directory branch of walkFn
walkFn_dir(path) ==
    LET entries == readDirPaths(input, path)
        dir     == [Path |-> path, Name |-> Base(path), Entries |-> entries]
    IN  /\ tocDirs' = Append(tocDirs, dir)
        /\ buf' = Append(buf, [path |-> path, kind |-> "DirInfo", name |-> dir.Name,
                               content |-> <<>>, usize |-> 0, complete |-> TRUE])
        /\ UNCHANGED <<hasCompressedFile, hasFile>>

\* what the output file holds when Generate has written it: the table
\* entries, the directories' entries and the flags the "Trailer" template reads
Artifact ==
    [nodes |-> buf, dirs |-> tocDirs,
     hasCompressedFile |-> hasCompressedFile, hasFile |-> hasFile]

\* an output file that holds no usable table
NoArtifact ==
    [nodes |-> <<>>, dirs |-> <<>>, hasCompressedFile |-> FALSE, hasFile |-> FALSE]

\* a Generate that flushes what it has when it fails
GenerateFails_Flush(err) ==
    /\ genpc' = "failed"
    /\ genErr' = err
    /\ outFile' = [state |-> "partial", data |-> NoArtifact]
    /\ UNCHANGED <<todo, buf, tocDirs, hasCompressedFile, hasFile>>

\* Generate returns err without reaching ioutil.WriteFile
GenerateFails(err) ==
    /\ genpc' = "failed"
    /\ genErr' = err
    /\ UNCHANGED <<todo, buf, tocDirs, hasCompressedFile, hasFile, outFile>>

\* Generate: the "Header" template
Generate_Header ==
    /\ genpc = "header"
    /\ \E ok \in BOOLEAN :
         IF ok
         THEN /\ genpc' = "walk"
              /\ todo' = <<Root>>
              /\ UNCHANGED <<buf, tocDirs, hasCompressedFile, hasFile, outFile, genErr>>
         ELSE GenerateFails("template")
    /\ UNCHANGED <<input, rtVars, clients>>

\* vfsutil.WalkFiles: visit the next path (walkFn), then descend into it
findAndWriteFiles ==
    /\ genpc = "walk"
    /\ todo # <<>>
    /\ LET path == Head(todo) IN
       \E ioerr \in BOOLEAN :
         IF ioerr
         THEN \* a stat, open or read failure is handed to walkFn, which returns it
              GenerateFails("io")
         ELSE /\ IF input[path].isDir
                 THEN /\ walkFn_dir(path)
                      /\ LET names == readDirNames(input, path) IN
                         todo' = [i \in 1..Len(names) |-> Join(path, names[i])] \o Tail(todo)
                 ELSE /\ walkFn_file(path)
                      /\ todo' = Tail(todo)
                      /\ UNCHANGED tocDirs
              /\ UNCHANGED <<genpc, outFile, genErr>>
    /\ UNCHANGED <<input, rtVars, clients>>

\* Generate: the walk returned nil; the "DirEntries" template
Generate_DirEntries ==
    /\ genpc = "walk"
    /\ todo = <<>>
    /\ \E ok \in BOOLEAN :
         IF ok
         THEN /\ genpc' = "trailer"
              /\ UNCHANGED <<todo, buf, tocDirs, hasCompressedFile, hasFile, outFile, genErr>>
         ELSE GenerateFails("template")
    /\ UNCHANGED <<input, rtVars, clients>>

\* Generate: the "Trailer" template
Generate_Trailer ==
    /\ genpc = "trailer"
    /\ \E ok \in BOOLEAN :
         IF ok
         THEN /\ genpc' = "write"
              /\ UNCHANGED <<todo, buf, tocDirs, hasCompressedFile, hasFile, outFile, genErr>>
         ELSE GenerateFails("template")
    /\ UNCHANGED <<input, rtVars, clients>>

\* Generate: ioutil.WriteFile(opt.Filename, buf.Bytes(), 0644). It creates
\* or truncates the file and then writes; when it fails the file is
\* untouched (it could not be opened) or holds only part of the bytes.
Generate_WriteFile ==
    /\ genpc = "write"
    /\ \E outcome \in {"ok", "openFailed", "writeFailed"} :
         /\ outFile' = CASE outcome = "ok"          -> [state |-> "complete", data |-> Artifact]
                         [] outcome = "openFailed"  -> outFile
                         [] outcome = "writeFailed" -> [state |-> "partial", data |-> NoArtifact]
         /\ genErr' = IF outcome = "ok" THEN "nil" ELSE "write"
         /\ genpc' = IF outcome = "ok" THEN "done" ELSE "failed"
    /\ UNCHANGED <<input, todo, buf, tocDirs, hasCompressedFile, hasFile, rtVars, clients>>

----------------------------------------------------------------------------
(* The runtime filesystem *)

SeekStart   == 0
SeekCurrent == 1
SeekEnd     == 2
Whences == {SeekStart, SeekCurrent, SeekEnd}

DirListChunk == 100     \* dirList asks for 100 entries at a time

\* the entries recorded for directory p by the "DirEntries" template
\* (written only for directories that have entries)
EntriesFor(dirs, p) ==
    IF \E i \in 1..Len(dirs) : dirs[i].Path = p /\ dirs[i].Entries # <<>>
    THEN dirs[CHOOSE i \in 1..Len(dirs) : dirs[i].Path = p /\ dirs[i].Entries # <<>>].Entries
    ELSE <<>>

\* the map literal of the generated code, evaluated at package initialisation
BuildFS(art) ==
    LET idx(p) == CHOOSE i \in 1..Len(art.nodes) : art.nodes[i].path = p IN
    [p \in {art.nodes[i].path : i \in 1..Len(art.nodes)} |->
        [kind    |-> art.nodes[idx(p)].kind,
         name    |-> art.nodes[idx(p)].name,
         content |-> art.nodes[idx(p)].content,
         usize   |-> IF art.nodes[idx(p)].kind = "CompressedFileInfo"
                     THEN art.nodes[idx(p)].usize ELSE 0,
         entries |-> EntriesFor(art.dirs, p)]]

NoCell ==
    [kind |-> "none", path |-> <<>>, grPos |-> 0, seekPos |-> 0, off |-> 0, i |-> 0, pos |-> 0]

NoRes ==
    [op |-> "none", n |-> 0, data |-> <<>>, ents |-> <<>>, err |-> "nil", ret |-> 0,
     rewound |-> FALSE, name |-> <<>>, perm |-> 0, dirBit |-> FALSE, isDir |-> FALSE]

NoLog ==
    [pure |-> FALSE, bytes |-> <<>>, ents |-> <<>>, fin |-> FALSE, inRange |-> FALSE,
     past |-> FALSE]

NoList == [pc |-> "idle", lo |-> 0, hi |-> 0, out |-> <<>>]

NoReq == [path |-> <<>>, accept |-> <<>>, query |-> <<>>]

NoResp ==
    [status |-> 0, location |-> <<>>, encoding |-> "", ctype |-> "", body |-> <<>>,
     lines |-> <<>>, err |-> "nil"]

NoServe == [pc |-> "idle", req |-> NoReq, name |-> <<>>, resp |-> NoResp]

\* an Open whose switch has its two file cases under the same template flag
FS_Open_OneFlag(path, f, withC, withF) ==
    IF f.kind = "CompressedFileInfo" /\ withC
    THEN IF GzipHeaderOK(f.content)
         THEN [fault |-> "none", h |-> [NoCell EXCEPT !.kind = "CompressedFile", !.path = path]]
         ELSE [fault |-> "unexpected error reading own gzip compressed bytes", h |-> NoCell]
    ELSE IF f.kind = "FileInfo" /\ withC
    THEN [fault |-> "none", h |-> [NoCell EXCEPT !.kind = "File", !.path = path]]
    ELSE IF f.kind = "DirInfo"
    THEN [fault |-> "none", h |-> [NoCell EXCEPT !.kind = "Dir", !.path = path]]
    ELSE [fault |-> "unexpected type", h |-> NoCell]

\* FS.Open after the lookup succeeded: the handle for node f, or a panic
FS_Open(path, f, withC, withF) ==
    IF f.kind = "CompressedFileInfo" /\ withC
    THEN IF GzipHeaderOK(f.content)
         THEN [fault |-> "none", h |-> [NoCell EXCEPT !.kind = "CompressedFile", !.path = path]]
         ELSE [fault |-> "unexpected error reading own gzip compressed bytes", h |-> NoCell]
    ELSE IF f.kind = "FileInfo" /\ withF
    THEN [fault |-> "none", h |-> [NoCell EXCEPT !.kind = "File", !.path = path]]
    ELSE IF f.kind = "DirInfo"
    THEN [fault |-> "none", h |-> [NoCell EXCEPT !.kind = "Dir", !.path = path]]
    ELSE [fault |-> "unexpected type", h |-> NoCell]

\* a Read that never rewinds
CompressedFile_Rewind_Never(h) == h

\* CompressedFile.Read, "Rewind to beginning": when f.grPos > f.seekPos
\* the decompressor is Reset onto the payload and grPos = 0
CompressedFile_Rewind(h) ==
    IF h.grPos > h.seekPos THEN [h EXCEPT !.grPos = 0, !.off = 0] ELSE h

\* CompressedFile.Read, "Fast-forward": when f.grPos < f.seekPos,
\* io.CopyN(ioutil.Discard, f.gr, f.seekPos-f.grPos); the bytes are taken
\* from the decompressor, and grPos = seekPos only when all of them came
CompressedFile_FastForward(h, all) ==
    IF h.grPos < h.seekPos
    THEN LET want == h.seekPos - h.grPos
             got  == Min(want, Len(all) - h.off)
         IN  IF got < want
             THEN [h |-> [h EXCEPT !.off = h.off + got], err |-> "EOF"]
             ELSE [h |-> [h EXCEPT !.off = h.off + got, !.grPos = h.seekPos], err |-> "nil"]
    ELSE [h |-> h, err |-> "nil"]

\* a Read tail that copies grPos into seekPos before adding n to it
CompressedFile_ReadAligned_StaleSeekPos(h, all, k, m, eager) ==
    LET n   == Min(Min(k, m), Len(all) - h.off)
        err == IF n = 0 \/ (eager /\ h.off + n = Len(all)) THEN "EOF" ELSE "nil"
    IN  [h |-> [h EXCEPT !.off = h.off + n, !.grPos = h.grPos + n, !.seekPos = h.grPos],
         r |-> [NoRes EXCEPT !.op = "Read", !.n = n, !.err = err,
                             !.data = SubSeq(all, h.off + 1, h.off + n)]]

\* CompressedFile.Read, the tail: n, err = f.gr.Read(p); f.grPos += n;
\* f.seekPos = f.grPos. The decompressor hands out at most m bytes in one
\* call and, when eager, reports io.EOF together with the last bytes.
CompressedFile_ReadAligned(h, all, k, m, eager) ==
    LET n   == Min(Min(k, m), Len(all) - h.off)
        err == IF n = 0 \/ (eager /\ h.off + n = Len(all)) THEN "EOF" ELSE "nil"
    IN  [h |-> [h EXCEPT !.off = h.off + n, !.grPos = h.grPos + n, !.seekPos = h.grPos + n],
         r |-> [NoRes EXCEPT !.op = "Read", !.n = n, !.err = err,
                             !.data = SubSeq(all, h.off + 1, h.off + n)]]

\* CompressedFile.Read with a buffer of k bytes
CompressedFile_Read(h, f, k, m, eager) ==
    LET all == Gunzip(f.content)
        h1  == CompressedFile_Rewind(h)
        ff  == CompressedFile_FastForward(h1, all)
        rd  == CompressedFile_ReadAligned(ff.h, all, k, m, eager)
        rew == h1 # h
    IN  IF ff.err # "nil"
        THEN [h |-> ff.h, r |-> [NoRes EXCEPT !.op = "Read", !.err = ff.err, !.rewound = rew]]
        ELSE [h |-> rd.h, r |-> [rd.r EXCEPT !.rewound = rew]]

\* a Seek that measures io.SeekEnd from the end of the compressed payload
CompressedFile_Seek_PayloadEnd(h, f, offset, whence) ==
    LET pos == CASE whence = SeekStart   -> 0 + offset
                 [] whence = SeekCurrent -> h.seekPos + offset
                 [] whence = SeekEnd     -> Len(f.content) + offset
    IN  [h |-> [h EXCEPT !.seekPos = pos],
         r |-> [NoRes EXCEPT !.op = "Seek", !.ret = pos]]

\* CompressedFile.Seek
CompressedFile_Seek(h, f, offset, whence) ==
    LET pos == CASE whence = SeekStart   -> 0 + offset
                 [] whence = SeekCurrent -> h.seekPos + offset
                 [] whence = SeekEnd     -> f.usize + offset
    IN  [h |-> [h EXCEPT !.seekPos = pos],
         r |-> [NoRes EXCEPT !.op = "Seek", !.ret = pos]]

\* File.Read: bytes.Reader.Read
File_Read(h, f, k) ==
    IF h.i >= Len(f.content)
    THEN [h |-> h, r |-> [NoRes EXCEPT !.op = "Read", !.err = "EOF"]]
    ELSE LET n == Min(k, Len(f.content) - h.i) IN
         [h |-> [h EXCEPT !.i = h.i + n],
          r |-> [NoRes EXCEPT !.op = "Read", !.n = n,
                              !.data = SubSeq(f.content, h.i + 1, h.i + n)]]

\* File.Seek: bytes.Reader.Seek
File_Seek(h, f, offset, whence) ==
    LET abs == CASE whence = SeekStart   -> offset
                 [] whence = SeekCurrent -> h.i + offset
                 [] whence = SeekEnd     -> Len(f.content) + offset
        base == [NoRes EXCEPT !.op = "Seek"]
    IN  IF abs < 0
        THEN [h |-> h, r |-> [base EXCEPT !.err = "negative position"]]
        ELSE [h |-> [h EXCEPT !.i = abs], r |-> [base EXCEPT !.ret = abs]]

\* DirInfo.Read
DirInfo_Read(h, k) ==
    [h |-> h, r |-> [NoRes EXCEPT !.op = "Read", !.err = "cannot Read from directory"]]

\* a Seek that rewinds on offset 0 whatever whence is
Dir_Seek_AnyWhence(h, offset, whence) ==
    LET base == [NoRes EXCEPT !.op = "Seek"] IN
    IF offset = 0
    THEN [h |-> [h EXCEPT !.pos = 0], r |-> base]
    ELSE [h |-> h, r |-> [base EXCEPT !.err = "unsupported Seek in directory"]]

\* Dir.Seek
Dir_Seek(h, offset, whence) ==
    LET base == [NoRes EXCEPT !.op = "Seek"] IN
    IF offset = 0 /\ whence = SeekStart
    THEN [h |-> [h EXCEPT !.pos = 0], r |-> base]
    ELSE [h |-> h, r |-> [base EXCEPT !.err = "unsupported Seek in directory"]]

\* a Readdir that moves the cursor by the count it was asked for
Dir_Readdir_AdvanceByCount(h, f, count) ==
    LET base == [NoRes EXCEPT !.op = "Readdir"] IN
    IF h.pos >= Len(f.entries) /\ count > 0
    THEN [h |-> h, r |-> [base EXCEPT !.err = "EOF"]]
    ELSE LET cnt == IF count <= 0 \/ count > Len(f.entries) - h.pos
                    THEN Len(f.entries) - h.pos ELSE count
         IN  [h |-> [h EXCEPT !.pos = h.pos + (IF count > 0 THEN count ELSE cnt)],
              r |-> [base EXCEPT !.n = cnt,
                                 !.ents = SubSeq(f.entries, h.pos + 1, h.pos + cnt)]]

\* a Readdir that does not move the cursor
Dir_Readdir_NoAdvance(h, f, count) ==
    LET base == [NoRes EXCEPT !.op = "Readdir"] IN
    IF h.pos >= Len(f.entries) /\ count > 0
    THEN [h |-> h, r |-> [base EXCEPT !.err = "EOF"]]
    ELSE LET cnt == IF count <= 0 \/ count > Len(f.entries) - h.pos
                    THEN Len(f.entries) - h.pos ELSE count
         IN  [h |-> h,
              r |-> [base EXCEPT !.n = cnt,
                                 !.ents = SubSeq(f.entries, h.pos + 1, h.pos + cnt)]]

\* a Readdir that signals the end only beyond the last entry
Dir_Readdir_PastEnd(h, f, count) ==
    LET base == [NoRes EXCEPT !.op = "Readdir"] IN
    IF h.pos > Len(f.entries) /\ count > 0
    THEN [h |-> h, r |-> [base EXCEPT !.err = "EOF"]]
    ELSE LET cnt == IF count <= 0 \/ count > Len(f.entries) - h.pos
                    THEN Len(f.entries) - h.pos ELSE count
         IN  [h |-> [h EXCEPT !.pos = h.pos + cnt],
              r |-> [base EXCEPT !.n = cnt,
                                 !.ents = SubSeq(f.entries, h.pos + 1, h.pos + cnt)]]

\* Dir.Readdir
Dir_Readdir(h, f, count) ==
    LET base == [NoRes EXCEPT !.op = "Readdir"] IN
    IF h.pos >= Len(f.entries) /\ count > 0
    THEN [h |-> h, r |-> [base EXCEPT !.err = "EOF"]]
    ELSE LET cnt == IF count <= 0 \/ count > Len(f.entries) - h.pos
                    THEN Len(f.entries) - h.pos ELSE count
         IN  [h |-> [h EXCEPT !.pos = h.pos + cnt],
              r |-> [base EXCEPT !.n = cnt,
                                 !.ents = SubSeq(f.entries, h.pos + 1, h.pos + cnt)]]

\* FileInfo.Readdir, CompressedFileInfo.Readdir
FileInfo_Readdir(h, count) ==
    [h |-> h, r |-> [NoRes EXCEPT !.op = "Readdir", !.err = "cannot Readdir from file"]]

\* a Stat that reports the length of what the node stores
Stat_StoredLength(f) ==
    [NoRes EXCEPT !.op = "Stat", !.name = f.name,
        !.ret    = Len(f.content),
        !.perm   = IF f.kind = "DirInfo" THEN 493 ELSE 292,
        !.dirBit = (f.kind = "DirInfo"),
        !.isDir  = (f.kind = "DirInfo")]

\* Stat and the os.FileInfo methods of the three node types: Size() in
\* ret, Mode() in perm (the permission bits) and dirBit (os.ModeDir)
Stat(f) ==
    [NoRes EXCEPT !.op = "Stat", !.name = f.name,
        !.ret    = CASE f.kind = "CompressedFileInfo" -> f.usize
                     [] f.kind = "FileInfo"           -> Len(f.content)
                     [] f.kind = "DirInfo"            -> 0,
        !.perm   = IF f.kind = "DirInfo" THEN 493 ELSE 292,     \* 0755, 0444
        !.dirBit = (f.kind = "DirInfo"),
        !.isDir  = (f.kind = "DirInfo")]

\* the three calls, dispatched on the kind of handle
Read(h, f, k, m, eager) ==
    CASE h.kind = "CompressedFile" -> CompressedFile_Read(h, f, k, m, eager)
      [] h.kind = "File"           -> File_Read(h, f, k)
      [] h.kind = "Dir"            -> DirInfo_Read(h, k)

Seek(h, f, offset, whence) ==
    CASE h.kind = "CompressedFile" -> CompressedFile_Seek(h, f, offset, whence)
      [] h.kind = "File"           -> File_Seek(h, f, offset, whence)
      [] h.kind = "Dir"            -> Dir_Seek(h, offset, whence)

Readdir(h, f, count) ==
    CASE h.kind = "Dir" -> Dir_Readdir(h, f, count)
      [] OTHER          -> FileInfo_Readdir(h, count)

----------------------------------------------------------------------------
(* Callers *)

Clients == {1, 2}

ReadBufs      == 1..MaxBuf
DirOffsets    == {0 - 1, 0, 1}
ReaddirCounts == {0 - 1, 0, 1, 2, DirListChunk}

\* the paths callers ask for: every key, written in several ways, and a missing one
OpenPaths ==
    LET keys == DOMAIN fs IN
    keys \cup {Tail(k) : k \in keys}
         \cup {k \o <<Slash>> : k \in keys}
         \cup {k \o <<Slash>> \o DotDotName : k \in keys}
         \cup {<<Slash, 122>>}

\* the size a file handle's positions are measured against
SizeOf(f) == IF f.kind = "CompressedFileInfo" THEN f.usize ELSE Len(f.content)

\* the positions callers seek to in a file, up to over bytes outside the content
Targets(f, over) == (0 - over)..(SizeOf(f) + over)

\* the offset that asks for position t
OffsetFor(h, f, t, whence) ==
    CASE whence = SeekStart   -> t
      [] whence = SeekCurrent -> t - (IF h.kind = "File" THEN h.i ELSE h.seekPos)
      [] whence = SeekEnd     -> t - SizeOf(f)

\* what the handle has returned since Open, kept while the calls are of one kind
\* (past: a Read was issued on a compressed-file handle whose requested
\* position was negative, at the end of the content or beyond it)
LogAfter(l, h, f, r, count) ==
    LET past == l.past \/ (/\ r.op = "Read" /\ h.kind = "CompressedFile"
                           /\ (h.seekPos < 0 \/ h.seekPos >= SizeOf(f)))
    IN
    IF r.op = "Stat" THEN l
    ELSE IF l.pure /\ r.op = "Read" /\ h.kind # "Dir"
    THEN [l EXCEPT !.bytes = l.bytes \o r.data, !.fin = l.fin \/ r.err = "EOF",
                   !.past = past]
    ELSE IF l.pure /\ r.op = "Readdir" /\ h.kind = "Dir"
    THEN [l EXCEPT !.ents = l.ents \o r.ents, !.fin = l.fin \/ count <= 0 \/ r.err = "EOF"]
    ELSE [pure |-> FALSE, bytes |-> <<>>, ents |-> <<>>, fin |-> FALSE,
          inRange |-> l.inRange /\ (r.op = "Seek" /\ h.kind # "Dir" /\ r.err = "nil"
                                      => r.ret \in 0..SizeOf(f)),
          past |-> past]

\* the call returned out on the shared table and alone on the table as constructed
Apply(c, out, alone, count) ==
    /\ cell' = [cell EXCEPT ![ref[c]] = out.h]
    /\ res'  = [res EXCEPT ![c] = out.r]
    /\ solo' = [solo EXCEPT ![c] = [cell |-> alone.h, res |-> alone.r]]
    /\ log'  = [log EXCEPT ![c] = LogAfter(log[c], cell[ref[c]], fs[cell[ref[c]].path], out.r, count)]

Running(c) == booted /\ fault = "none" /\ c \in clients

Holding(c) == Running(c) /\ ref[c] # 0 /\ lst[c].pc = "idle"

\* package initialisation of the program the generated file is compiled into
Boot ==
    /\ genpc = "done"
    /\ outFile.state = "complete"
    /\ ~booted
    /\ booted' = TRUE
    /\ fs'  = BuildFS(outFile.data)
    /\ fs0' = BuildFS(outFile.data)
    /\ hasC' = outFile.data.hasCompressedFile
    /\ hasF' = outFile.data.hasFile
    /\ UNCHANGED <<genVars, srv, clients, fault, ref, cell, res, log, solo, lst>>

\* an Open that hands out the handle another caller holds on the same path
NewCell_Pooled(c, path) ==
    IF \E d \in Clients \ {c} : ref[d] # 0 /\ cell[ref[d]].path = path
    THEN ref[CHOOSE d \in Clients \ {c} : ref[d] # 0 /\ cell[ref[d]].path = path]
    ELSE c

\* the handle a new Open hands out: a cell no caller holds
NewCell(c, path) == c

\* FS.Open
Open(c, raw) ==
    /\ Running(c)
    /\ ref[c] = 0
    /\ LET path == Clean(<<Slash>> \o raw) IN
       IF path \notin DOMAIN fs
       THEN /\ res' = [res EXCEPT ![c] = [NoRes EXCEPT !.op = "Open", !.err = "ErrNotExist"]]
            /\ UNCHANGED <<fault, ref, cell, log, solo>>
       ELSE LET o == FS_Open(path, fs[path], hasC, hasF)
                i == NewCell(c, path)
            IN  IF o.fault # "none"
                THEN /\ fault' = o.fault
                     /\ UNCHANGED <<ref, cell, res, log, solo>>
                ELSE /\ ref' = [ref EXCEPT ![c] = i]
                     /\ cell' = [cell EXCEPT ![i] = o.h]
                     /\ res' = [res EXCEPT ![c] = [NoRes EXCEPT !.op = "Open"]]
                     /\ solo' = [solo EXCEPT ![c] = [cell |-> o.h, res |-> [NoRes EXCEPT !.op = "Open"]]]
                     /\ log' = [log EXCEPT ![c] = [NoLog EXCEPT !.pure = TRUE, !.inRange = TRUE]]
                     /\ UNCHANGED fault
    /\ UNCHANGED <<genVars, srv, clients, booted, fs, fs0, hasC, hasF, lst>>

\* Close: the handle is dropped
Close(c) ==
    /\ Running(c)
    /\ ref[c] # 0
    /\ lst[c].pc \in {"idle", "done"}
    /\ ref' = [ref EXCEPT ![c] = 0]
    /\ cell' = IF \E d \in Clients \ {c} : ref[d] = ref[c] THEN cell
               ELSE [cell EXCEPT ![ref[c]] = NoCell]
    /\ res' = [res EXCEPT ![c] = [NoRes EXCEPT !.op = "Close"]]
    /\ solo' = [solo EXCEPT ![c] = [cell |-> NoCell, res |-> [NoRes EXCEPT !.op = "Close"]]]
    /\ log' = [log EXCEPT ![c] = NoLog]
    /\ lst' = [lst EXCEPT ![c] = NoList]
    /\ UNCHANGED <<genVars, srv, clients, booted, fs, fs0, hasC, hasF, fault>>

DoStat(c) ==
    /\ Holding(c)
    /\ LET h == cell[ref[c]] IN
       Apply(c, [h |-> h, r |-> Stat(fs[h.path])],
                [h |-> solo[c].cell, r |-> Stat(fs0[solo[c].cell.path])], 0)
    /\ UNCHANGED <<genVars, srv, clients, booted, fs, fs0, hasC, hasF, fault, ref, lst>>

DoRead(c, k, m, eager) ==
    /\ Holding(c)
    /\ LET h == cell[ref[c]] IN
       Apply(c, Read(h, fs[h.path], k, m, eager),
                Read(solo[c].cell, fs0[solo[c].cell.path], k, m, eager), 0)
    /\ UNCHANGED <<genVars, srv, clients, booted, fs, fs0, hasC, hasF, fault, ref, lst>>

DoSeek(c, offset, whence) ==
    /\ Holding(c)
    /\ LET h == cell[ref[c]] IN
       /\ Apply(c, Seek(h, fs[h.path], offset, whence),
                   Seek(solo[c].cell, fs0[solo[c].cell.path], offset, whence), 0)
    /\ UNCHANGED <<genVars, srv, clients, booted, fs, fs0, hasC, hasF, fault, ref, lst>>

\* a Seek on a file handle, to any of the positions
SeekFile(c, whence, over) ==
    /\ Holding(c)
    /\ cell[ref[c]].kind # "Dir"
    /\ \E t \in Targets(fs[cell[ref[c]].path], over) :
         DoSeek(c, OffsetFor(cell[ref[c]], fs[cell[ref[c]].path], t, whence), whence)

\* a Seek on a directory handle
SeekDir(c, offset, whence) ==
    /\ Holding(c)
    /\ cell[ref[c]].kind = "Dir"
    /\ DoSeek(c, offset, whence)

DoReaddir(c, count) ==
    /\ Holding(c)
    /\ LET h == cell[ref[c]] IN
       Apply(c, Readdir(h, fs[h.path], count),
                Readdir(solo[c].cell, fs0[solo[c].cell.path], count), count)
    /\ UNCHANGED <<genVars, srv, clients, booted, fs, fs0, hasC, hasF, fault, ref, lst>>

----------------------------------------------------------------------------
(* dirList of the file server, on the handle serveFile opened *)

\* byName.Less
byName_Less(x, y, table) == StrLess(table[x].name, table[y].name)

\* sort.Sort(byName(dirs)): ascending by Name(); the entries of a
\* directory have different names
byName_Sort(s, table) ==
    LET n == Len(s)
    IN  CHOOSE out \in
            { <<>> \o [k \in 1..n |-> s[CHOOSE i \in 1..n : rank[i] = k]] :
                rank \in { <<>> \o [i \in 1..n |->
                    Cardinality({j \in 1..n : \/ byName_Less(s[j], s[i], table)
                                              \/ (~byName_Less(s[i], s[j], table) /\ j <= i)})] } } : TRUE

\* the line dirList prints for entry d
ListedName(d, table) ==
    IF table[d].kind = "DirInfo" THEN table[d].name \o <<Slash>> ELSE table[d].name

\* dirList is entered after Open and Stat, and prints the parent link
dirList_Begin(c) ==
    /\ Holding(c)
    /\ cell[ref[c]].kind = "Dir"
    /\ res[c].op = "Stat"
    /\ log[c].pure /\ ~log[c].fin /\ cell[ref[c]].pos = 0
    /\ lst' = [lst EXCEPT ![c] = [NoList EXCEPT !.pc = "loop", !.out = <<DotDotName>>]]
    /\ UNCHANGED <<genVars, srv, clients, booted, fs, fs0, hasC, hasF, fault, ref, cell, res, log, solo>>

\* a loop that also stops on a slice shorter than it asked for
dirList_Readdir_ShortIsEnd(c) ==
    /\ Running(c)
    /\ lst[c].pc = "loop"
    /\ LET h   == cell[ref[c]]
           out == Readdir(h, fs[h.path], DirListChunk)
       IN  /\ Apply(c, out, Readdir(solo[c].cell, fs0[solo[c].cell.path], DirListChunk), DirListChunk)
           /\ lst' = [lst EXCEPT ![c] =
                        IF out.r.err # "nil" \/ out.r.n < DirListChunk
                        THEN [@ EXCEPT !.pc = "done"]
                        ELSE [@ EXCEPT !.pc = "sort", !.lo = h.pos + 1, !.hi = h.pos + out.r.n]]
    /\ UNCHANGED <<genVars, srv, clients, booted, fs, fs0, hasC, hasF, fault, ref>>

\* dirs, err := f.Readdir(100); break when err != nil or len(dirs) == 0
dirList_Readdir(c) ==
    /\ Running(c)
    /\ lst[c].pc = "loop"
    /\ LET h   == cell[ref[c]]
           out == Readdir(h, fs[h.path], DirListChunk)
       IN  /\ Apply(c, out, Readdir(solo[c].cell, fs0[solo[c].cell.path], DirListChunk), DirListChunk)
           /\ lst' = [lst EXCEPT ![c] =
                        IF out.r.err # "nil" \/ out.r.n = 0
                        THEN [@ EXCEPT !.pc = "done"]
                        ELSE [@ EXCEPT !.pc = "sort", !.lo = h.pos + 1, !.hi = h.pos + out.r.n]]
    /\ UNCHANGED <<genVars, srv, clients, booted, fs, fs0, hasC, hasF, fault, ref>>

\* sort.Sort(byName(dirs)) on the slice Readdir returned, which shares the
\* directory's entries array; then one line per entry
dirList_Sort(c) ==
    /\ Running(c)
    /\ lst[c].pc = "sort"
    /\ LET path == cell[ref[c]].path
           cur  == fs[path].entries
       IN  \E dirs \in {SubSeq(cur, lst[c].lo, lst[c].hi)} :
           \E sorted \in {byName_Sort(dirs, fs)} :
               /\ fs' = [fs EXCEPT ![path].entries =
                            SubSeq(cur, 1, lst[c].lo - 1) \o sorted \o SubSeq(cur, lst[c].hi + 1, Len(cur))]
               /\ lst' = [lst EXCEPT ![c] =
                            [@ EXCEPT !.pc = "loop",
                                      !.out = @ \o [i \in 1..Len(sorted) |-> ListedName(sorted[i], fs)]]]
    /\ UNCHANGED <<genVars, srv, clients, booted, fs0, hasC, hasF, fault, ref, cell, res, log, solo>>

----------------------------------------------------------------------------
(* The file server: ServeHTTP, serveFile, localRedirect,                   *)
(* isGzipEncodingAccepted                                                  *)

\* the gzip-bytes capability (gzipByter): only CompressedFile has GzipBytes
gzipByter(h) == h.kind = "CompressedFile"

Comma == 44                               \* ","
GzipToken == <<103, 122, 105, 112>>       \* "gzip"
PlainKey == <<112, 108, 97, 105, 110>>    \* "plain"
WhiteSpace == {9, 10, 11, 12, 13, 32}     \* what strings.TrimSpace removes

\* strings.Split(s, sep) for a separator of one byte
RECURSIVE strings_Split(_, _, _)
strings_Split(s, sep, cur) ==
    IF s = <<>> THEN <<cur>>
    ELSE IF Head(s) = sep THEN <<cur>> \o strings_Split(Tail(s), sep, <<>>)
    ELSE strings_Split(Tail(s), sep, Append(cur, Head(s)))

\* strings.TrimSpace
RECURSIVE strings_TrimSpace(_)
strings_TrimSpace(s) ==
    IF s = <<>> THEN s
    ELSE IF Head(s) \in WhiteSpace THEN strings_TrimSpace(Tail(s))
    ELSE IF s[Len(s)] \in WhiteSpace THEN strings_TrimSpace(SubSeq(s, 1, Len(s) - 1))
    ELSE s

\* a negotiation that compares the whole header with "gzip"
isGzipEncodingAccepted_WholeHeader(accept) ==
    strings_TrimSpace(accept) = GzipToken

\* isGzipEncodingAccepted on the value of the Accept-Encoding header
isGzipEncodingAccepted(accept) ==
    LET vs == strings_Split(accept, Comma, <<>>) IN
    \E i \in 1..Len(vs) : strings_TrimSpace(vs[i]) = GzipToken

\* s without the slashes it ends with
RECURSIVE StripSlashes(_)
StripSlashes(s) ==
    IF s # <<>> /\ s[Len(s)] = Slash THEN StripSlashes(SubSeq(s, 1, Len(s) - 1)) ELSE s

\* path.Base of any path
path_Base(p) ==
    IF p = <<>> THEN DotName
    ELSE LET q == StripSlashes(p)
             r == SubSeq(q, LastSlash(q) + 1, Len(q))
         IN  IF r = <<>> THEN <<Slash>> ELSE r

\* the bytes of s before the first b
RECURSIVE Before(_, _)
Before(s, b) ==
    IF s = <<>> \/ Head(s) = b THEN <<>> ELSE <<Head(s)>> \o Before(Tail(s), b)

\* _, plain := r.URL.Query()["plain"]: the raw query has the key
url_Query_Has(q, key) ==
    LET ps == strings_Split(q, 38, <<>>) IN                    \* "&"
    \E i \in 1..Len(ps) : ps[i] # <<>> /\ Before(ps[i], 61) = key   \* "="

\* a redirect that sends the bare last element in both directions
localRedirect_NoPrefix(req, newPath) ==
    [NoResp EXCEPT !.status = 301,
                   !.location = (IF Len(newPath) > 3 /\ SubSeq(newPath, 1, 3) = <<46, 46, Slash>>
                                 THEN SubSeq(newPath, 4, Len(newPath)) ELSE newPath)
                                \o (IF req.query # <<>> THEN <<63>> \o req.query ELSE <<>>)]

\* localRedirect: Moved Permanently to newPath, with the request's query
localRedirect(req, newPath) ==
    [NoResp EXCEPT !.status = 301,
                   !.location = newPath \o (IF req.query # <<>> THEN <<63>> \o req.query
                                            ELSE <<>>)]   \* "?"

\* io.ReadFull / io.CopyN on a handle: Read until want bytes have come or
\* Read reports an error
RECURSIVE io_ReadN(_, _, _, _, _)
io_ReadN(h, f, want, m, eager) ==
    IF want <= 0 THEN [h |-> h, data |-> <<>>, err |-> "nil"]
    ELSE LET o == Read(h, f, want, m, eager) IN
         IF o.r.err # "nil" \/ o.r.n = 0
         THEN [h |-> o.h, data |-> o.r.data, err |-> o.r.err]
         ELSE LET rest == io_ReadN(o.h, f, want - o.r.n, m, eager) IN
              [h |-> rest.h, data |-> o.r.data \o rest.data, err |-> rest.err]

\* bytes.NewReader(b): a reader handle and the bytes it reads
bytes_NewReader(b) ==
    [h |-> [NoCell EXCEPT !.kind = "File"],
     f |-> [kind |-> "FileInfo", name |-> <<>>, content |-> b, usize |-> 0, entries |-> <<>>]]

\* http.ServeContent(w, r, name, modtime, content) without Range or
\* conditional headers: when no Content-Type is set it reads the first 512
\* bytes to detect one and seeks back; it finds the size by seeking to the
\* end, seeks to the start and copies size bytes to the response
http_ServeContent(h, f, sniff, m, eager) ==
    LET h0 == IF sniff
              THEN Seek(io_ReadN(h, f, 512, m, eager).h, f, 0, SeekStart).h
              ELSE h
        e  == Seek(h0, f, 0, SeekEnd)
        b  == Seek(e.h, f, 0, SeekStart)
        cp == io_ReadN(b.h, f, e.r.ret, m, eager)
    IN  [body |-> cp.data, size |-> e.r.ret,
         err  |-> IF Len(cp.data) < e.r.ret THEN "short" ELSE "nil"]

\* serveFile after Open and Stat succeeded on a file that is served: the
\* switch on gzipByter and isGzipEncodingAccepted
serveFile_Content(h, f, req, m, eager) ==
    LET plain == url_Query_Has(req.query, PlainKey)
        ctype == IF plain THEN "text/plain" ELSE "detected"
    IN  IF gzipByter(h) /\ isGzipEncodingAccepted(req.accept)
        THEN LET z  == bytes_NewReader(f.content)       \* gzipFile.GzipBytes()
                 sc == http_ServeContent(z.h, z.f, ~plain, m, eager)
             IN  [NoResp EXCEPT !.status = 200, !.encoding = "gzip", !.ctype = ctype,
                                !.body = sc.body, !.err = sc.err]
        ELSE LET sc == http_ServeContent(h, f, ~plain, m, eager)
             IN  [NoResp EXCEPT !.status = 200, !.ctype = ctype,
                                !.body = sc.body, !.err = sc.err]

\* ServeHTTP and serveFile up to the point where the response is complete
\* or dirList is entered; the handle of a file or of a redirected request
\* is closed on return (defer f.Close())
ServeHTTP(c, req, m, eager) ==
    /\ Running(c)
    /\ ref[c] = 0
    /\ srv[c].pc = "idle"
    /\ LET url  == IF req.path = <<>> \/ Head(req.path) # Slash
                   THEN <<Slash>> \o req.path ELSE req.path
           r    == [req EXCEPT !.path = url]
           name == Clean(url)
           path == Clean(<<Slash>> \o name)
           done(resp) == [pc |-> "done", req |-> r, name |-> name, resp |-> resp]
       IN  IF path \notin DOMAIN fs
           THEN /\ srv' = [srv EXCEPT ![c] = done([NoResp EXCEPT !.status = 500,
                                                                   !.err = "ErrNotExist"])]
                /\ UNCHANGED <<fault, ref, cell, res, log, solo>>
           ELSE LET o == FS_Open(path, fs[path], hasC, hasF)
                    d == Stat(fs[path])
                IN  IF o.fault # "none"
                    THEN /\ fault' = o.fault
                         /\ UNCHANGED <<ref, cell, res, log, solo, srv>>
                    ELSE IF d.isDir /\ url[Len(url)] # Slash
                    THEN /\ srv' = [srv EXCEPT ![c] =
                                      done(localRedirect(r, path_Base(url) \o <<Slash>>))]
                         /\ UNCHANGED <<fault, ref, cell, res, log, solo>>
                    ELSE IF ~d.isDir /\ url[Len(url)] = Slash
                    THEN /\ srv' = [srv EXCEPT ![c] =
                                      done(localRedirect(r, <<46, 46, Slash>> \o path_Base(url)))]
                         /\ UNCHANGED <<fault, ref, cell, res, log, solo>>
                    ELSE IF d.isDir
                    THEN \* dirList(w, f, name) runs on the open handle
                         /\ srv' = [srv EXCEPT ![c] =
                                      [pc |-> "dirList", req |-> r, name |-> name, resp |-> NoResp]]
                         /\ ref' = [ref EXCEPT ![c] = NewCell(c, path)]
                         /\ cell' = [cell EXCEPT ![NewCell(c, path)] = o.h]
                         /\ res' = [res EXCEPT ![c] = d]
                         /\ solo' = [solo EXCEPT ![c] = [cell |-> o.h, res |-> d]]
                         /\ log' = [log EXCEPT ![c] = [NoLog EXCEPT !.pure = TRUE, !.inRange = TRUE]]
                         /\ UNCHANGED fault
                    ELSE /\ srv' = [srv EXCEPT ![c] =
                                      done(serveFile_Content(o.h, fs[path], r, m, eager))]
                         /\ UNCHANGED <<fault, ref, cell, res, log, solo>>
    /\ UNCHANGED <<genVars, clients, booted, fs, fs0, hasC, hasF, lst>>

\* serveFile returns after dirList: the listing is the response and the
\* handle is closed
serveFile_Return(c) ==
    /\ Running(c)
    /\ srv[c].pc = "dirList"
    /\ lst[c].pc = "done"
    /\ srv' = [srv EXCEPT ![c] =
                 [@ EXCEPT !.pc = "done",
                           !.resp = [NoResp EXCEPT !.status = 200, !.ctype = "text/html",
                                                   !.lines = lst[c].out]]]
    /\ ref' = [ref EXCEPT ![c] = 0]
    /\ cell' = [cell EXCEPT ![ref[c]] = NoCell]
    /\ res' = [res EXCEPT ![c] = [NoRes EXCEPT !.op = "Close"]]
    /\ solo' = [solo EXCEPT ![c] = [cell |-> NoCell, res |-> [NoRes EXCEPT !.op = "Close"]]]
    /\ log' = [log EXCEPT ![c] = NoLog]
    /\ lst' = [lst EXCEPT ![c] = NoList]
    /\ UNCHANGED <<genVars, clients, booted, fs, fs0, hasC, hasF, fault>>

\* ServeHTTP has returned and the response is out; the server takes the
\* next request
ServeHTTP_Return(c) ==
    /\ Running(c)
    /\ srv[c].pc = "done"
    /\ srv' = [srv EXCEPT ![c] = NoServe]
    /\ UNCHANGED <<genVars, clients, booted, fs, fs0, hasC, hasF, fault, ref, cell, res, log, solo, lst>>

\* the requests: every key written in several ways, and a missing path
ServePaths ==
    LET keys == DOMAIN fs IN
    keys \cup {Tail(k) : k \in keys}
         \cup {k \o <<Slash>> : k \in keys}
         \cup {k \o <<Slash>> \o DotName : k \in keys}
         \cup {k \o <<Slash>> \o DotDotName : k \in keys}
         \cup {<<Slash, 122>>, <<Slash, 122, Slash>>}

\* values of the Accept-Encoding header
AcceptHeaders ==
    { <<>>,
      GzipToken,                                                       \* "gzip"
      GzipToken \o <<Comma, 32, 100, 101, 102, 108, 97, 116, 101>>,     \* "gzip, deflate"
      <<98, 114, Comma, 32>> \o GzipToken \o <<32, Comma, 42>>,         \* "br, gzip ,*"
      <<100, 101, 102, 108, 97, 116, 101, Comma>> \o GzipToken,         \* "deflate,gzip"
      <<32>> \o GzipToken \o <<9>>,                                     \* " gzip\t"
      <<105, 100, 101, 110, 116, 105, 116, 121>>,                       \* "identity"
      <<71, 90, 73, 80>>,                                               \* "GZIP"
      <<120, 45>> \o GzipToken,                                         \* "x-gzip"
      GzipToken \o <<59, 113, 61, 49>>,                                 \* "gzip;q=1"
      <<103, 122, Comma, 105, 112>>,                                    \* "gz,ip"
      GzipToken \o <<32>> \o GzipToken }                                \* "gzip gzip"

\* raw queries: none, "plain", "x=1"
Queries == {<<>>, PlainKey, <<120, 61, 49>>}

----------------------------------------------------------------------------
(* Specifications *)

InitWith(trees, cs) ==
    /\ input \in trees
    /\ clients = cs
    /\ genpc = "header"
    /\ todo = <<>>
    /\ buf = <<>>
    /\ tocDirs = <<>>
    /\ hasCompressedFile = FALSE
    /\ hasFile = FALSE
    /\ outFile = [state |-> "untouched", data |-> NoArtifact]
    /\ genErr = "nil"
    /\ booted = FALSE
    /\ fs = <<>>
    /\ fs0 = <<>>
    /\ hasC = FALSE
    /\ hasF = FALSE
    /\ fault = "none"
    /\ ref = [c \in Clients |-> 0]
    /\ cell = [i \in Clients |-> NoCell]
    /\ res = [c \in Clients |-> NoRes]
    /\ log = [c \in Clients |-> NoLog]
    /\ solo = [c \in Clients |-> [cell |-> NoCell, res |-> NoRes]]
    /\ lst = [c \in Clients |-> NoList]
    /\ srv = [c \in Clients |-> NoServe]

\* one caller on the filesystem generated from one of the input trees
Init == InitWith(InputTrees, {1})

\* two concurrent callers
InitTwo == InitWith({TreePair}, Clients)

\* one caller on the filesystem generated from a single file of any content
InitFile == InitWith(FileTrees, {1})

\* one caller on the filesystem generated from a single compressible file
InitPacked == InitWith(PackedTrees, {1})

Next ==
    \/ Generate_Header
    \/ findAndWriteFiles
    \/ Generate_DirEntries
    \/ Generate_Trailer
    \/ Generate_WriteFile
    \/ Boot
    \/ \E c \in Clients, raw \in OpenPaths : Open(c, raw)
    \/ \E c \in Clients : Close(c)
    \/ \E c \in Clients : DoStat(c)
    \/ \E c \in Clients, k \in ReadBufs, m \in ReadBufs, eager \in BOOLEAN : DoRead(c, k, m, eager)
    \/ \E c \in Clients, whence \in Whences : SeekFile(c, whence, MaxOver)
    \/ \E c \in Clients, offset \in DirOffsets, whence \in Whences : SeekDir(c, offset, whence)
    \/ \E c \in Clients, count \in ReaddirCounts : DoReaddir(c, count)
    \/ \E c \in Clients : dirList_Begin(c)
    \/ \E c \in Clients : dirList_Readdir(c)
    \/ \E c \in Clients : dirList_Sort(c)

\* the same calls, with arguments that stay inside the file
NextInside ==
    \/ Generate_Header
    \/ findAndWriteFiles
    \/ Generate_DirEntries
    \/ Generate_Trailer
    \/ Generate_WriteFile
    \/ Boot
    \/ \E c \in Clients, raw \in DOMAIN fs : Open(c, raw)
    \/ \E c \in Clients : Close(c)
    \/ \E c \in Clients : DoStat(c)
    \/ \E c \in Clients, k \in ReadBufs : DoRead(c, k, MaxBuf, FALSE)
    \/ \E c \in Clients, whence \in Whences : SeekFile(c, whence, 0)
    \/ \E c \in Clients : SeekDir(c, 0, SeekStart)
    \/ \E c \in Clients, count \in {0, 1} : DoReaddir(c, count)
    \/ \E c \in Clients : dirList_Begin(c)
    \/ \E c \in Clients : dirList_Readdir(c)
    \/ \E c \in Clients : dirList_Sort(c)

Spec == Init /\ [][Next]_vars

SpecFile == InitFile /\ [][NextInside]_vars

SpecPacked == InitPacked /\ [][Next]_vars

SpecTwo == InitTwo /\ [][NextInside]_vars

\* one server goroutine serving requests on the mixed tree
InitServe == InitWith({TreeMixed}, {1})

NextServe ==
    \/ Generate_Header
    \/ findAndWriteFiles
    \/ Generate_DirEntries
    \/ Generate_Trailer
    \/ Generate_WriteFile
    \/ Boot
    \/ \E c \in Clients, p \in ServePaths, a \in AcceptHeaders, q \in Queries,
          m \in ReadBufs, eager \in BOOLEAN :
          ServeHTTP(c, [path |-> p, accept |-> a, query |-> q], m, eager)
    \/ \E c \in Clients : dirList_Begin(c)
    \/ \E c \in Clients : dirList_Readdir(c)
    \/ \E c \in Clients : dirList_Sort(c)
    \/ \E c \in Clients : serveFile_Return(c)
    \/ \E c \in Clients : ServeHTTP_Return(c)

SpecServe == InitServe /\ [][NextServe]_vars

\* directories of no entry, one entry, exactly one slice, one slice and an
\* entry, and MaxChunks full slices
ListSizes == {0, 1, DirListChunk, DirListChunk + 1, MaxChunks * DirListChunk}

InitList == InitWith({TreeList(n) : n \in ListSizes}, {1})

\* the server lists the root directory and the empty directory
NextList ==
    \/ Generate_Header
    \/ findAndWriteFiles
    \/ Generate_DirEntries
    \/ Generate_Trailer
    \/ Generate_WriteFile
    \/ Boot
    \/ \E c \in Clients, p \in {Root, Join(Root, ListName(0)) \o <<Slash>>} :
          ServeHTTP(c, [path |-> p, accept |-> <<>>, query |-> <<>>], MaxBuf, FALSE)
    \/ \E c \in Clients : dirList_Begin(c)
    \/ \E c \in Clients : dirList_Readdir(c)
    \/ \E c \in Clients : dirList_Sort(c)
    \/ \E c \in Clients : serveFile_Return(c)
    \/ \E c \in Clients : ServeHTTP_Return(c)

\* dirList runs in the goroutine of its request, which is not suspended
\* for ever: each step of the loop that can be taken is taken
SpecList ==
    /\ InitList
    /\ [][NextList]_vars
    /\ \A c \in Clients : WF_vars(dirList_Readdir(c)) /\ WF_vars(dirList_Sort(c))

----------------------------------------------------------------------------
(* Properties *)

\* the content of the input file a handle was opened on
Original(h) == input[h.path].content

\* s is strictly ascending
Ascending(s) == \A i \in 1..(Len(s) - 1) : StrLess(s[i], s[i + 1])

\* C1: on a compressed-file handle on which every Seek so far asked for a
\* position inside 0..L, a Read with a buffer of k >= 1 bytes issued at
\* requested position p < L returns n bytes, 1 <= n <= k, which are the
\* bytes p..p+n of the original content, whatever way p was reached.
C1_ReadServesRequestedPosition ==
    [][\A c \in Clients, k \in ReadBufs, m \in ReadBufs, eager \in BOOLEAN :
          (/\ ref[c] # 0 /\ res'[c].op = "Read"
           /\ cell[ref[c]].kind = "CompressedFile"
           /\ log[c].inRange
           /\ cell[ref[c]].seekPos < Len(Original(cell[ref[c]]))
           /\ DoRead(c, k, m, eager))
          => LET p == cell[ref[c]].seekPos IN
             /\ res'[c].n \in 1..k
             /\ res'[c].data = SubSeq(Original(cell[ref[c]]), p + 1, p + res'[c].n)]_vars

\* a Read that followed a backward seek (the decompressor was restarted)
\* returned two different bytes from the middle of the content
C1_Witness ==
    \E c \in clients :
        /\ ref[c] # 0
        /\ cell[ref[c]].kind = "CompressedFile"
        /\ log[c].inRange
        /\ res[c].op = "Read" /\ res[c].rewound
        /\ res[c].n = 2 /\ res[c].data[1] # res[c].data[2]
        /\ cell[ref[c]].seekPos > 2

\* C2: for every file whose gzip form is shorter than the file, the handle
\* a fresh Open returns is a compressed-file handle, and reading it
\* sequentially returns consecutive chunks of the file: every Read returns
\* at least one more byte or reports end-of-stream, end-of-stream is
\* reported only when the chunks together are the whole file.
C2_SequentialReadReproducesFile ==
    [][\A c \in Clients, k \in ReadBufs, m \in ReadBufs, eager \in BOOLEAN :
          (/\ ref[c] # 0 /\ res'[c].op = "Read"
           /\ cell[ref[c]].kind # "Dir"
           /\ log[c].pure
           /\ Len(GzipWrite(Original(cell[ref[c]]))) < Len(Original(cell[ref[c]]))
           /\ DoRead(c, k, m, eager))
          => LET f == Original(cell[ref[c]]) IN
             /\ cell[ref[c]].kind = "CompressedFile"
             /\ log'[c].bytes = log[c].bytes \o res'[c].data
             /\ log'[c].bytes = SubSeq(f, 1, Len(log'[c].bytes))
             /\ res'[c].n = Len(res'[c].data)
             /\ res'[c].n >= 1 \/ res'[c].err = "EOF"
             /\ res'[c].err \in {"nil", "EOF"}
             /\ res'[c].err = "EOF" => log'[c].bytes = f
             /\ log[c].bytes = f => res'[c].err = "EOF" /\ res'[c].n = 0]_vars

\* a sequential read in several chunks reached end-of-stream having
\* returned the whole of a file made of two different runs
C2_Witness ==
    \E c \in clients :
        /\ ref[c] # 0
        /\ cell[ref[c]].kind = "CompressedFile"
        /\ log[c].pure /\ log[c].fin
        /\ log[c].bytes = Original(cell[ref[c]])
        /\ \E i \in 1..Len(log[c].bytes) : log[c].bytes[i] # log[c].bytes[1]
        /\ res[c].op = "Read" /\ res[c].n = 1 /\ res[c].err = "EOF"

\* C3: Seek on a compressed-file handle sets requested (seekPos) to offset,
\* requested + offset or uncompressed size + offset for whence start,
\* current, end, returns that value without error, and leaves committed
\* (grPos) and the decompressor's stream position unchanged.
C3_SeekOnlyMovesRequested ==
    [][\A c \in Clients, whence \in Whences, offset \in (0 - 2 * (MaxLen + MaxOver))..(2 * (MaxLen + MaxOver)) :
          (/\ ref[c] # 0 /\ res'[c].op = "Seek"
           /\ cell[ref[c]].kind = "CompressedFile"
           /\ DoSeek(c, offset, whence))
          => LET h == cell[ref[c]]
                 want == CASE whence = SeekStart   -> offset
                           [] whence = SeekCurrent -> h.seekPos + offset
                           [] whence = SeekEnd     -> Len(Original(h)) + offset
             IN  /\ cell'[ref[c]] = [h EXCEPT !.seekPos = want]
                 /\ res'[c].op = "Seek" /\ res'[c].ret = want /\ res'[c].err = "nil"
                 /\ fs' = fs]_vars

\* a Seek relative to the end moved requested backwards while the
\* decompressor stayed where the last Read left it
C3_Witness ==
    \E c \in clients :
        /\ ref[c] # 0
        /\ cell[ref[c]].kind = "CompressedFile"
        /\ res[c].op = "Seek"
        /\ res[c].ret = Len(Original(cell[ref[c]])) - 1
        /\ cell[ref[c]].seekPos = res[c].ret
        /\ cell[ref[c]].grPos > cell[ref[c]].seekPos
        /\ cell[ref[c]].off = cell[ref[c]].grPos

\* C4: every file the walk has visited is in the output buffer exactly
\* once, as a compressed entry (gzip bytes and original size) exactly when
\* the gzip bytes are fewer than the file's bytes, otherwise as a stored
\* entry holding the file's bytes verbatim; only handles on compressed
\* entries have the gzip-bytes capability.
C4_CompressedIffSmaller ==
    /\ \A i \in 1..Len(buf) :
          /\ buf[i].complete
          /\ \A j \in 1..Len(buf) : buf[j].path = buf[i].path => j = i
          /\ buf[i].kind = "DirInfo" <=> input[buf[i].path].isDir
          /\ buf[i].kind # "DirInfo" =>
                LET f  == input[buf[i].path].content
                    gz == GzipWrite(f)
                IN  /\ buf[i].kind = "CompressedFileInfo" <=> Len(gz) < Len(f)
                    /\ buf[i].kind = "FileInfo" <=> Len(gz) >= Len(f)
                    /\ buf[i].kind = "CompressedFileInfo" => buf[i].content = gz /\ buf[i].usize = Len(f)
                    /\ buf[i].kind = "FileInfo" => buf[i].content = f
    /\ genpc \in {"trailer", "write", "done"} =>
          \A p \in DOMAIN input : \E i \in 1..Len(buf) : buf[i].path = p
    /\ \A c \in clients :
          ref[c] # 0 /\ cell[ref[c]].kind # "Dir" =>
             (gzipByter(cell[ref[c]])
                <=> Len(GzipWrite(Original(cell[ref[c]]))) < Len(Original(cell[ref[c]])))

\* a non-empty file whose gzip form has exactly the file's length was
\* recorded as stored, and is open
C4_Witness ==
    \E c \in clients :
        /\ ref[c] # 0
        /\ cell[ref[c]].kind = "File"
        /\ Original(cell[ref[c]]) # <<>>
        /\ Len(GzipWrite(Original(cell[ref[c]]))) = Len(Original(cell[ref[c]]))
        /\ fs[cell[ref[c]].path].content = Original(cell[ref[c]])

\* the children the input filesystem has in directory p, as full paths
Children(p) == {Join(p, input[p].names[i]) : i \in 1..Len(input[p].names)}

\* C5: on a directory handle on which only Readdir has been called since
\* Open, the slices returned so far, one after the other, are the first
\* entries of the directory's recorded list, which is strictly ascending
\* and holds exactly the directory's children; once a call with n <= 0
\* has returned or a call with n > 0 has signalled the end, they are the
\* whole list.
C5_ReaddirListsEntriesInOrder ==
    \A c \in clients :
        ref[c] # 0 /\ cell[ref[c]].kind = "Dir" =>
            LET recorded == fs0[cell[ref[c]].path].entries IN
            /\ Ascending(recorded)
            /\ {recorded[i] : i \in 1..Len(recorded)} = Children(cell[ref[c]].path)
            /\ log[c].pure =>
                  /\ Len(log[c].ents) <= Len(recorded)
                  /\ log[c].ents = SubSeq(recorded, 1, Len(log[c].ents))
                  /\ Len(log[c].ents) = cell[ref[c]].pos
                  /\ log[c].fin => log[c].ents = recorded

\* several Readdir calls, the last one signalling the end, have listed a
\* directory of three entries
C5_Witness ==
    \E c \in clients :
        /\ ref[c] # 0
        /\ cell[ref[c]].kind = "Dir"
        /\ log[c].pure /\ log[c].fin
        /\ Len(log[c].ents) = 3
        /\ res[c].op = "Readdir" /\ res[c].err = "EOF"

\* C6: Readdir(n) with n > 0 and entries remaining returns the next
\* min(n, remaining) entries; with n <= 0 it returns all remaining ones
\* (none once exhausted) and never signals the end; either way the cursor
\* advances by the number returned. With n > 0 and the cursor at the end
\* it returns no entries, signals the end and leaves the cursor there.
C6_ReaddirCountAndEnd ==
    [][\A c \in Clients, count \in ReaddirCounts :
          (/\ ref[c] # 0 /\ res'[c].op = "Readdir"
           /\ cell[ref[c]].kind = "Dir"
           /\ \/ DoReaddir(c, count)
              \/ count = DirListChunk /\ dirList_Readdir(c))
          => LET h         == cell[ref[c]]
                 recorded  == fs0[h.path].entries
                 remaining == Len(recorded) - h.pos
                 expect    == IF count > 0 THEN Min(count, remaining) ELSE remaining
             IN  IF count > 0 /\ remaining = 0
                 THEN /\ res'[c].err = "EOF"
                      /\ res'[c].n = 0 /\ res'[c].ents = <<>>
                      /\ cell'[ref[c]] = h
                 ELSE /\ res'[c].err = "nil"
                      /\ res'[c].n = expect
                      /\ res'[c].ents = SubSeq(recorded, h.pos + 1, h.pos + expect)
                      /\ cell'[ref[c]] = [h EXCEPT !.pos = h.pos + expect]]_vars

\* a Readdir on the empty directory has signalled the end
C6_Witness ==
    \E c \in clients :
        /\ ref[c] # 0
        /\ cell[ref[c]].kind = "Dir"
        /\ fs0[cell[ref[c]].path].entries = <<>>
        /\ res[c].op = "Readdir" /\ res[c].err = "EOF" /\ res[c].n = 0

\* C7: on a directory handle Read fails, returns 0 bytes and changes
\* nothing; Seek(0, start) succeeds, returns 0 and puts the cursor at 0;
\* every other Seek fails and leaves the cursor where it was.
C7_DirectoryReadAndSeek ==
    [][\A c \in Clients :
          /\ \A k \in ReadBufs, m \in ReadBufs, eager \in BOOLEAN :
                (/\ ref[c] # 0 /\ res'[c].op = "Read"
                 /\ cell[ref[c]].kind = "Dir"
                 /\ DoRead(c, k, m, eager))
                => /\ res'[c].err = "cannot Read from directory"
                   /\ res'[c].n = 0 /\ res'[c].data = <<>>
                   /\ cell'[ref[c]] = cell[ref[c]]
          /\ \A offset \in DirOffsets, whence \in Whences :
                (/\ ref[c] # 0 /\ res'[c].op = "Seek"
                 /\ cell[ref[c]].kind = "Dir"
                 /\ DoSeek(c, offset, whence))
                => IF offset = 0 /\ whence = SeekStart
                   THEN /\ res'[c].err = "nil" /\ res'[c].ret = 0
                        /\ cell'[ref[c]] = [cell[ref[c]] EXCEPT !.pos = 0]
                   ELSE /\ res'[c].err = "unsupported Seek in directory"
                        /\ cell'[ref[c]] = cell[ref[c]]]_vars

\* a Seek was rejected on a directory handle whose cursor is past the
\* first entry
C7_Witness ==
    \E c \in clients :
        /\ ref[c] # 0
        /\ cell[ref[c]].kind = "Dir"
        /\ res[c].op = "Seek" /\ res[c].err = "unsupported Seek in directory"
        /\ cell[ref[c]].pos > 0

\* C8: once the table is constructed, every node's content, metadata and
\* entries list stay what they were at construction, whatever the callers
\* and the directory listings that sort Readdir's slices in place do.
C8_TableNeverChanges ==
    booted => fs = fs0

\* one caller's dirList has sorted a slice of two entries while the other
\* caller holds a handle it has used
C8_Witness ==
    \E c \in clients, d \in clients :
        /\ c # d
        /\ lst[c].pc = "loop" /\ Len(lst[c].out) = 3
        /\ ref[d] # 0 /\ res[d].op \in {"Read", "Readdir", "Seek"}

\* the handle Open returns starts at position 0
Fresh(h) == h.grPos = 0 /\ h.seekPos = 0 /\ h.off = 0 /\ h.i = 0 /\ h.pos = 0

\* C9: a handle starts at position 0, and whatever the other caller does
\* with its own handle, on the same path or another one, the handle's
\* cursor and the result of the last call on it are what they are when
\* the caller's calls are made alone on the table as constructed.
C9_HandlesArePrivate ==
    \A c \in clients :
        ref[c] # 0 =>
            /\ cell[ref[c]] = solo[c].cell
            /\ res[c] = solo[c].res
            /\ res[c].op = "Open" => Fresh(cell[ref[c]])

\* both callers hold a handle on the same file, at different positions
C9_Witness ==
    /\ ref[1] # 0 /\ ref[2] # 0
    /\ cell[ref[1]].path = cell[ref[2]].path
    /\ cell[ref[1]].kind = "CompressedFile"
    /\ cell[ref[1]].seekPos > cell[ref[2]].seekPos
    /\ res[1].op = "Read" /\ res[2].op = "Read"

\* the whole input tree is in the output buffer
Walked == todo = <<>> /\ {buf[i].path : i \in 1..Len(buf)} = DOMAIN input

\* C10 as stated: whenever Generate returns an error, whichever step it
\* comes from, the output file has not been written at all.
C10_NoOutputOnAnyFailure ==
    genErr # "nil" => outFile.state = "untouched"

\* C10, amended: when the walk or a template step fails, Generate returns
\* that error and the output file is untouched; the file is written only
\* by the final write, after the whole tree has been walked and packed
\* without error, and it is complete exactly when Generate returns nil.
C10_NoOutputUnlessWalked ==
    /\ genErr \in {"io", "template"} => outFile.state = "untouched"
    /\ genErr # "nil" <=> genpc = "failed"
    /\ outFile.state # "untouched" => Walked /\ genErr \in {"nil", "write"}
    /\ outFile.state = "complete" <=> genpc = "done"
    /\ outFile.state = "complete" => outFile.data = Artifact

\* the walk failed after files had been packed, and nothing was written
C10_Witness ==
    /\ genErr = "io"
    /\ genpc = "failed"
    /\ Len(buf) >= 2
    /\ outFile.state = "untouched"

\* the kind of handle that goes with each variant of node
HandleKind(f) ==
    CASE f.kind = "CompressedFileInfo" -> "CompressedFile"
      [] f.kind = "FileInfo"           -> "File"
      [] f.kind = "DirInfo"            -> "Dir"

\* C11: the table's keys are the paths of the input tree; Open fails with
\* NotFound, handing out nothing, exactly when the normalized path is not a
\* key; for a key it returns a handle on that key of the kind that goes
\* with the node's variant; whichever cases the generated switch contains,
\* it never raises the "unexpected type" fault (nor any other).
C11_OpenMatchesTable ==
    [][\A c \in Clients, raw \in OpenPaths :
          (/\ booted /\ ref[c] = 0
           /\ Open(c, raw))
          => LET path == Clean(<<Slash>> \o raw) IN
             /\ DOMAIN fs = DOMAIN input
             /\ fault' = "none"
             /\ res'[c].err = "ErrNotExist" <=> path \notin DOMAIN fs
             /\ res'[c].err \in {"nil", "ErrNotExist"}
             /\ IF path \in DOMAIN fs
                THEN /\ ref'[c] # 0
                     /\ cell'[ref'[c]].path = path
                     /\ cell'[ref'[c]].kind = HandleKind(fs[path])
                     /\ fs[path].kind = "DirInfo" <=> input[path].isDir
                ELSE ref'[c] = 0]_vars

\* in a program generated from a tree without any compressed file, whose
\* switch therefore has no compressed-file case, an Open returned a
\* stored-file handle
C11_Witness ==
    \E c \in clients :
        /\ booted /\ ~hasC /\ hasF
        /\ ref[c] # 0
        /\ res[c].op = "Open" /\ res[c].err = "nil"
        /\ cell[ref[c]].kind = "File"
        /\ fault = "none"

\* C12: on every compressed-file handle committed (grPos) is the number of
\* bytes the decompressor has produced since it was last started from the
\* beginning of the payload, also after a Read that failed or reported
\* end-of-stream while fast-forwarding.
C12_CommittedIsDecoderPosition ==
    \A c \in clients :
        ref[c] # 0 /\ cell[ref[c]].kind = "CompressedFile" =>
            cell[ref[c]].grPos = cell[ref[c]].off

\* the header a, cut at its commas, has an element that is "gzip" between
\* nothing but white space
HasGzipElement(a) ==
    \E i \in 1..(Len(a) + 1), j \in 0..Len(a) :
        /\ i <= j + 1
        /\ i = 1 \/ a[i - 1] = Comma
        /\ j = Len(a) \/ a[j + 1] = Comma
        /\ \A x \in i..j : a[x] # Comma
        /\ \E l \in i..j :
              /\ l + Len(GzipToken) - 1 <= j
              /\ SubSeq(a, l, l + Len(GzipToken) - 1) = GzipToken
              /\ \A x \in (i..(l - 1)) \cup ((l + Len(GzipToken))..j) : a[x] \in WhiteSpace

\* C13: a request for an existing file, written without a trailing slash,
\* is answered with the stored compressed bytes and the gzip marker exactly
\* when the file is kept compressed (its handle has the gzip-bytes
\* capability) and an element of the Accept-Encoding header is "gzip";
\* otherwise without the marker and with the original bytes of the file.
C13_GzipIffCapableAndAccepted ==
    \A c \in clients :
        (/\ srv[c].pc = "done"
         /\ srv[c].name \in DOMAIN input
         /\ ~input[srv[c].name].isDir
         /\ srv[c].req.path[Len(srv[c].req.path)] # Slash)
        => LET f       == input[srv[c].name].content
               capable == fs[srv[c].name].kind = "CompressedFileInfo"
               resp    == srv[c].resp
           IN  /\ resp.status = 200 /\ resp.err = "nil"
               /\ resp.encoding \in {"gzip", ""}
               /\ resp.encoding = "gzip" <=> (capable /\ HasGzipElement(srv[c].req.accept))
               /\ resp.encoding = "gzip" => resp.body = fs[srv[c].name].content
                                            /\ resp.body = GzipWrite(f)
               /\ resp.encoding = "" => resp.body = f

\* the compressed file was served as stored, with the marker, on a header
\* that names gzip as the second of three elements, with spaces around it
C13_Witness ==
    \E c \in clients :
        /\ srv[c].pc = "done"
        /\ srv[c].resp.status = 200
        /\ srv[c].resp.encoding = "gzip"
        /\ srv[c].resp.body = GzipWrite(Compressible)
        /\ Len(strings_Split(srv[c].req.accept, Comma, <<>>)) = 3
        /\ srv[c].req.accept[1] # GzipToken[1]

\* the last of the non-empty elements of path p
LastElement(p) ==
    LET NonEmpty(e) == e # <<>>
        es == SelectSeq(SplitPath(p, <<>>), NonEmpty)
    IN  es[Len(es)]

\* C14: for a request whose cleaned path is a key of the table: a
\* directory asked for without a trailing slash is answered with a
\* permanent redirect to the last path element plus "/", a file asked for
\* with a trailing slash with a permanent redirect to "../" plus the last
\* path element (the request's query, if any, follows the target); a
\* redirect carries no listing and no content; when the trailing slash
\* matches the kind of node no redirect is issued and the listing or the
\* content is served.
C14_TrailingSlashRedirects ==
    \A c \in clients :
        (srv[c].pc \in {"done", "dirList"} /\ srv[c].name \in DOMAIN input)
        => LET url    == srv[c].req.path
               isDir  == input[srv[c].name].isDir
               slash  == url[Len(url)] = Slash
               resp   == srv[c].resp
               query  == IF srv[c].req.query = <<>> THEN <<>>
                         ELSE <<63>> \o srv[c].req.query
           IN  /\ srv[c].pc = "dirList" => isDir /\ slash
               /\ srv[c].pc = "done" =>
                     IF isDir /\ ~slash
                     THEN /\ resp.status = 301
                          /\ resp.location = LastElement(url) \o <<Slash>> \o query
                          /\ resp.body = <<>> /\ resp.lines = <<>> /\ resp.encoding = ""
                     ELSE IF ~isDir /\ slash
                     THEN /\ resp.status = 301
                          /\ resp.location = <<46, 46, Slash>> \o LastElement(url) \o query
                          /\ resp.body = <<>> /\ resp.lines = <<>> /\ resp.encoding = ""
                     ELSE /\ resp.status = 200
                          /\ resp.location = <<>>
                          /\ isDir => resp.lines # <<>> /\ resp.lines[1] = DotDotName
                          /\ ~isDir => resp.body # <<>>

\* the file in the subdirectory, asked for with a trailing slash, was
\* redirected to "../c"
C14_Witness ==
    \E c \in clients :
        /\ srv[c].pc = "done"
        /\ srv[c].resp.status = 301
        /\ srv[c].name = Join(Join(Root, NameD), NameC)
        /\ srv[c].req.path = srv[c].name \o <<Slash>>
        /\ srv[c].resp.location = <<46, 46, Slash>> \o NameC

\* permission bits perm give somebody write permission (perm & 0222 # 0)
Writable(perm) ==
    \/ (perm \div 128) % 2 = 1
    \/ (perm \div 16) % 2 = 1
    \/ (perm \div 2) % 2 = 1

\* what Stat reports about size and directory bit on the handle of c
StatSizeAndKind(c) ==
    LET h == cell[ref[c]] IN
    /\ res[c].err = "nil"
    /\ res[c].name = Base(h.path)
    /\ h.kind # "Dir" => res[c].ret = Len(Original(h))
    /\ res[c].dirBit <=> input[h.path].isDir
    /\ res[c].isDir <=> input[h.path].isDir

\* C15 as stated: Stat reports the uncompressed size for both kinds of
\* file, and a mode without any write permission bit whose directory bit
\* is set exactly for directories.
C15_StatReadOnlyMode ==
    \A c \in clients :
        ref[c] # 0 /\ res[c].op = "Stat" =>
            /\ StatSizeAndKind(c)
            /\ ~Writable(res[c].perm)

\* C15, amended: Stat reports the uncompressed size for both kinds of
\* file and a mode whose directory bit is set exactly for directories;
\* the mode of a file is 0444, without write permission bits, the mode of
\* a directory is 0755, with the owner's write permission bit.
C15_StatSizeAndMode ==
    \A c \in clients :
        ref[c] # 0 /\ res[c].op = "Stat" =>
            /\ StatSizeAndKind(c)
            /\ ~res[c].dirBit => res[c].perm = 292 /\ ~Writable(res[c].perm)
            /\ res[c].dirBit => res[c].perm = 493

\* Stat on a compressed-file handle reported a size that is not the
\* length of the stored payload
C15_Witness ==
    \E c \in clients :
        /\ ref[c] # 0
        /\ cell[ref[c]].kind = "CompressedFile"
        /\ res[c].op = "Stat"
        /\ res[c].ret = Len(Compressible)
        /\ res[c].ret # Len(fs[cell[ref[c]].path].content)

\* the path of the directory that holds p
Parent(p) ==
    IF LastSlash(p) <= 1 THEN Root ELSE SubSeq(p, 1, LastSlash(p) - 1)

\* the directories of table t that list path k
ListedIn(t, k) ==
    {d \in DOMAIN t : t[d].kind = "DirInfo"
                      /\ \E i \in 1..Len(t[d].entries) : t[d].entries[i] = k}

\* C16: in the table generation produced, the entries of every directory
\* are strictly ascending full paths (so without duplicates), each of them
\* a key of the table whose parent path is the directory; and every key
\* but the root is listed by exactly one directory, its parent.
C16_EntriesAreTheChildren ==
    booted =>
        /\ \A d \in DOMAIN fs0 :
              /\ Ascending(fs0[d].entries)
              /\ fs0[d].kind # "DirInfo" => fs0[d].entries = <<>>
              /\ \A i \in 1..Len(fs0[d].entries) :
                    /\ fs0[d].entries[i] \in DOMAIN fs0
                    /\ fs0[d].entries[i] # d
                    /\ Parent(fs0[d].entries[i]) = d
        /\ \A k \in DOMAIN fs0 \ {Root} : ListedIn(fs0, k) = {Parent(k)}
        /\ ListedIn(fs0, Root) = {}
        /\ Root \in DOMAIN fs0

\* the table of the mixed tree: a root with three entries, one of them a
\* directory with an entry of its own
C16_Witness ==
    /\ booted
    /\ Len(fs0[Root].entries) = 3
    /\ fs0[Join(Root, NameD)].entries = <<Join(Join(Root, NameD), NameC)>>

\* C17: a Read on a compressed-file handle restarts the decompressor
\* exactly when committed (grPos) > requested (seekPos); when, after that,
\* committed < requested, exactly requested - committed bytes are decoded
\* and discarded and committed becomes requested; after a Read that
\* returns without error committed = requested = the requested position
\* before the Read + the bytes returned.
C17_RestartAndCatchUp ==
    [][\A c \in Clients, k \in ReadBufs, m \in ReadBufs, eager \in BOOLEAN :
          (/\ ref[c] # 0 /\ res'[c].op = "Read"
           /\ cell[ref[c]].kind = "CompressedFile"
           /\ DoRead(c, k, m, eager))
          => LET h         == cell[ref[c]]
                 g         == cell'[ref[c]]
                 restart   == h.grPos > h.seekPos
                 committed == IF restart THEN 0 ELSE h.grPos
                 from      == IF res'[c].rewound THEN 0 ELSE h.off
                 discarded == (g.off - from) - res'[c].n
             IN  /\ res'[c].rewound => restart
                 /\ restart /\ h.off > 0 => res'[c].rewound
                 /\ committed < h.seekPos =>
                       /\ discarded = h.seekPos - committed
                       /\ g.grPos - res'[c].n = h.seekPos
                 /\ committed >= h.seekPos => discarded = 0
                 /\ res'[c].err = "nil" =>
                       /\ g.grPos = g.seekPos
                       /\ g.seekPos = h.seekPos + res'[c].n]_vars

\* C18: on a compressed-file handle on which a Read was issued at a
\* requested position that was negative or at or beyond the end of the
\* content, a later Seek to a position p with 0 <= p < L followed by a
\* Read with a buffer of k >= 1 bytes returns n bytes, 1 <= n <= k, which
\* are the bytes of the content from p on, as on a fresh handle.
C18_UsableAfterReadPastEnd ==
    [][\A c \in Clients, k \in ReadBufs, m \in ReadBufs, eager \in BOOLEAN :
          (/\ ref[c] # 0 /\ res'[c].op = "Read"
           /\ cell[ref[c]].kind = "CompressedFile"
           /\ log[c].past
           /\ res[c].op = "Seek"
           /\ cell[ref[c]].seekPos >= 0
           /\ cell[ref[c]].seekPos < Len(Original(cell[ref[c]]))
           /\ DoRead(c, k, m, eager))
          => LET p == cell[ref[c]].seekPos IN
             /\ res'[c].n \in 1..k
             /\ res'[c].err \in {"nil", "EOF"}
             /\ res'[c].data = SubSeq(Original(cell[ref[c]]), p + 1, p + res'[c].n)]_vars

\* C19: the cursor of every directory handle stays within 0..len(entries),
\* whatever Readdir counts (positive, zero, negative, larger than the
\* number of entries) and Seek calls (accepted or rejected) were made, so
\* the slice Readdir takes, entries[pos : pos+count], is always in range.
C19_DirCursorInRange ==
    \A c \in clients :
        ref[c] # 0 /\ cell[ref[c]].kind = "Dir" =>
            /\ cell[ref[c]].pos >= 0
            /\ cell[ref[c]].pos <= Len(fs[cell[ref[c]].path].entries)
            /\ res[c].op = "Readdir" =>
                  /\ res[c].n = Len(res[c].ents)
                  /\ res[c].n <= cell[ref[c]].pos

\* after a Seek, one Readdir has taken the directory's three entries at
\* once and the cursor is at the end
C19_Witness ==
    \E c \in clients :
        /\ ref[c] # 0
        /\ cell[ref[c]].kind = "Dir"
        /\ ~log[c].pure
        /\ res[c].op = "Readdir" /\ res[c].n = 3
        /\ cell[ref[c]].pos = Len(fs[cell[ref[c]].path].entries)

\* the line dirList prints for child p of the input tree
LineFor(p) == IF input[p].isDir THEN Base(p) \o <<Slash>> ELSE Base(p)

\* C20: the listing loop of dirList, once entered, comes to its end,
\* whatever the number of entries of the directory (none, one, exactly
\* 100, more than 100); and when it has, the listing is the parent link
\* followed by one line for every child of the directory, each exactly
\* once.
C20_DirListTerminatesComplete ==
    /\ \A c \in Clients : (lst[c].pc \in {"loop", "sort"}) ~> (lst[c].pc = "done")
    /\ [](\A c \in clients :
            lst[c].pc = "done" =>
                LET out  == lst[c].out
                    kids == Children(cell[ref[c]].path)
                IN  /\ out[1] = DotDotName
                    /\ Len(out) = 1 + Cardinality(kids)
                    /\ {out[i] : i \in 2..Len(out)} = {LineFor(p) : p \in kids}
                    /\ cell[ref[c]].pos = Cardinality(kids))

\* the listing of the directory of 101 entries is complete, after a last
\* slice of one entry and a call that signalled the end
C20_Witness ==
    \E c \in clients :
        /\ lst[c].pc = "done"
        /\ Len(lst[c].out) = DirListChunk + 2
        /\ res[c].op = "Readdir" /\ res[c].err = "EOF"
        /\ lst[c].hi = DirListChunk + 1

====
